---- MODULE Spec2Model ----
(***************************************************************************)
(* Model of backend/app.py: the in-memory one-time secret store behind two *)
(* Flask routes, POST /api/secret (store_secret) and                       *)
(* GET /api/secret/<secret_id> (retrieve_secret).                          *)
(*                                                                         *)
(* Flask serves each request on its own thread (app.run is threaded), so   *)
(* the model has a fixed pool of request handlers, each running one view   *)
(* function at a time.  A step of a handler is one statement of the view   *)
(* function that touches shared state (the uuid generator, the dict        *)
(* secrets_store); statements that only touch locals are merged with the   *)
(* step before them.  dict.__setitem__ and dict.pop on a dict with str     *)
(* keys are single interpreter operations, hence one step each.            *)
(*                                                                         *)
(* Request bodies are the values request.get_json() can return: any JSON   *)
(* value, not only objects.  Requests whose body is not JSON at all are    *)
(* answered by the framework before line 21 and are not modelled.          *)
(***************************************************************************)
EXTENDS Integers, FiniteSets, Sequences, TLC

\* ---------------------------------------------------------------- bounds
NumHandlers == 2        \* concurrent request-handling threads
MaxIds      == 2        \* distinct uuid4 results the generator can still draw
MaxRequests == 4        \* requests received in a run

Handlers == 1..NumHandlers
Ids      == 1..MaxIds          \* the strings str(uuid.uuid4()) can return
NotARealId == 0                \* a string uuid4 never returns
Payloads == {"", "a"}          \* values of the encrypted_data field

\* ------------------------------------------------------- python values
None == [type |-> "None"]

\* The JSON values request.get_json() returns, by Python type.  items is the
\* set of keys of a dict, of elements of a list, of substrings of a str.
JObject(keys, p) == [type |-> "dict", items |-> keys, num |-> 0, encrypted_data |-> p]
JOther(t, its, n) == [type |-> t, items |-> its, num |-> n, encrypted_data |-> ""]

JsonBodies ==
    {JOther("None", {}, 0)}                                  \* null
    \cup {JObject({}, ""), JObject({"other"}, "")}           \* {}, {"other": ..}
    \cup {JObject({"encrypted_data"}, p) : p \in Payloads}   \* {"encrypted_data": p}
    \cup {JOther("int", {}, 5)}                             \* 5
    \cup {JOther("list", {"encrypted_data"}, 0)}             \* ["encrypted_data"]

NoData == JOther("None", {}, 0)

\* bool(data): None, 0, and empty containers are falsy.
Truthy(data) ==
    CASE data.type = "None" -> FALSE
      [] data.type = "int"  -> data.num # 0
      [] OTHER              -> data.items # {}

\* `key in data` raises TypeError on an int ("argument of type 'int' is not
\* iterable").
InRaises(data) == data.type = "int"
Contains(data, key) == key \in data.items

\* data['encrypted_data'] raises TypeError on a list or a str.
SubscriptRaises(data) == data.type # "dict"

\* ------------------------------------------------------------ responses
NoResp == [status |-> 0]
Created(id)      == [status |-> 201, secret_id |-> id]
BadRequest       == [status |-> 400, error |-> "encrypted_data is required"]
Ok(secret)       == [status |-> 200, encrypted_data |-> secret.encrypted_data]
NotFound         == [status |-> 404,
                     error |-> "Secret not found. It may have been viewed already."]
\* Flask's answer to an exception the view function does not catch.
InternalError    == [status |-> 500, error |-> "Internal Server Error"]

VARIABLES
    secrets_store,  \* the module-level dict: id -> {'encrypted_data': payload}
    issued,         \* the ids uuid4 has returned so far
    pc,             \* per handler: the line it is about to run
    op,             \* per handler: the view function it runs or ran last
    data,           \* per handler: the JSON body of its POST (local `data`)
    secret_id,      \* per handler: local / path parameter `secret_id`
    secret,         \* per handler: local `secret` of retrieve_secret
    resp,           \* per handler: the response returned, once pc = "done"
                    \* (the locals secret_id and secret of a view function
                    \* end with its return; the request, the body of a POST
                    \* or the path id of a GET, stays beside the response)
    puts,           \* history: id -> the payloads inserted under it, in order
    popped,         \* history: the ids popped at least once since inserted
    delivered,      \* history: id -> success responses returned for it
                    \* (0, 1, "2 or more")
    nreq,           \* history: requests received so far
    ord             \* history, per handler: its pop was the first (1) or a
                    \* later one (2) on its id since the insert, or the id
                    \* had never been inserted (0)

vars == <<secrets_store, issued, pc, op, data, secret_id, secret, resp,
          puts, popped, delivered, nreq, ord>>

Init ==
    /\ secrets_store = [i \in {} |-> None]
    /\ issued = {}
    /\ pc = [h \in Handlers |-> "idle"]
    /\ op = [h \in Handlers |-> "none"]
    /\ data = [h \in Handlers |-> NoData]
    /\ secret_id = [h \in Handlers |-> NotARealId]
    /\ secret = [h \in Handlers |-> None]
    /\ resp = [h \in Handlers |-> NoResp]
    /\ puts = [i \in Ids |-> <<>>]
    /\ popped = {}
    /\ delivered = [i \in Ids |-> 0]
    /\ nreq = 0
    /\ ord = [h \in Handlers |-> 0]

\* n + 1 for a history that tells none, one, several apart.
Count(n) == IF n < 2 THEN n + 1 ELSE n

\* The 201 response naming id i has been sent.
Returned_before_insert(i) == i \in issued

Returned(i) ==
    /\ puts[i] # <<>>
    /\ \A g \in Handlers : ~(pc[g] = "l27" /\ secret_id[g] = i)

\* The <secret_id> a GET can name: ids are unguessable, so a client names
\* either an id some 201 response gave it or a string that was never issued.
PathIds == {NotARealId} \cup {i \in Ids : Returned(i)}

Free(h) == pc[h] \in {"idle", "done"}

\* ---------------------------------------------------------- store_secret
\* line 21: the outcome of the validation: "reject" (400), "raise"
\* (TypeError) or "accept".
Validate(d) ==
    IF ~Truthy(d) THEN "reject"
    ELSE IF InRaises(d) THEN "raise"
    ELSE IF ~Contains(d, "encrypted_data") THEN "reject"
    ELSE "accept"

\* line 24: the values uuid.uuid4() can return: any of the strings it has
\* not returned yet (a version-4 UUID carries 122 random bits; the model
\* takes the library at its word that two draws differ).
uuid4_reuse == Ids

uuid4 == Ids \ issued

\* line 25: secrets_store[secret_id] = {'encrypted_data': payload}
SetItem_rebind(store, id, p) == [i \in {id} |-> [encrypted_data |-> p]]

SetItem(store, id, p) ==
    [i \in DOMAIN store \cup {id} |->
        IF i = id THEN [encrypted_data |-> p] ELSE store[i]]

\* line 27
StoreResponse_200(id) == [status |-> 200, secret_id |-> id]

StoreResponse(id) == Created(id)

\* The generator can still serve every put that has passed line 22 and one
\* more (the model's ids are finitely many; uuid4 itself never runs out).
IdsLeft ==
    Cardinality(issued) + Cardinality({g \in Handlers : pc[g] = "l24"}) < MaxIds

\* lines 20-22: a POST arrives with JSON body `body`.
StoreValidate(h, body) ==
    /\ Free(h)
    /\ nreq < MaxRequests
    /\ Validate(body) = "accept" => IdsLeft
    /\ nreq' = nreq + 1
    /\ op' = [op EXCEPT ![h] = "store"]
    /\ data' = [data EXCEPT ![h] = body]
    /\ secret_id' = [secret_id EXCEPT ![h] = NotARealId]
    /\ secret' = [secret EXCEPT ![h] = None]
    /\ ord' = [ord EXCEPT ![h] = 0]
    /\ LET v == Validate(body) IN
         /\ pc' = [pc EXCEPT ![h] = IF v = "accept" THEN "l24" ELSE "done"]
         /\ resp' = [resp EXCEPT ![h] = CASE v = "reject" -> BadRequest
                                          [] v = "raise"  -> InternalError
                                          [] OTHER        -> NoResp]
    /\ UNCHANGED <<secrets_store, issued, puts, popped, delivered>>

\* line 24: secret_id = str(uuid.uuid4())
StoreGenId(h) ==
    /\ pc[h] = "l24"
    /\ \E id \in uuid4 :
         /\ secret_id' = [secret_id EXCEPT ![h] = id]
         /\ issued' = issued \cup {id}
    /\ pc' = [pc EXCEPT ![h] = "l25"]
    /\ UNCHANGED <<secrets_store, op, data, secret, resp, puts, popped,
                   delivered, nreq, ord>>

\* line 25: the right-hand side is evaluated first; on a list or str body it
\* raises TypeError and the dict is not touched.
StoreInsert_single_slot(h) ==
    /\ pc[h] = "l25"
    /\ DOMAIN secrets_store = {}
    /\ IF SubscriptRaises(data[h])
       THEN /\ pc' = [pc EXCEPT ![h] = "done"]
            /\ resp' = [resp EXCEPT ![h] = InternalError]
            /\ secret_id' = [secret_id EXCEPT ![h] = NotARealId]
            /\ UNCHANGED <<secrets_store, puts>>
       ELSE /\ secrets_store' =
                  SetItem(secrets_store, secret_id[h], data[h].encrypted_data)
            /\ puts' = [puts EXCEPT
                  ![secret_id[h]] = Append(@, data[h].encrypted_data)]
            /\ pc' = [pc EXCEPT ![h] = "l27"]
            /\ UNCHANGED <<resp, secret_id>>
    /\ UNCHANGED <<issued, op, data, secret, popped, delivered, nreq, ord>>

StoreInsert(h) ==
    /\ pc[h] = "l25"
    /\ IF SubscriptRaises(data[h])
       THEN /\ pc' = [pc EXCEPT ![h] = "done"]
            /\ resp' = [resp EXCEPT ![h] = InternalError]
            /\ secret_id' = [secret_id EXCEPT ![h] = NotARealId]
            /\ UNCHANGED <<secrets_store, puts>>
       ELSE /\ secrets_store' =
                  SetItem(secrets_store, secret_id[h], data[h].encrypted_data)
            /\ puts' = [puts EXCEPT
                  ![secret_id[h]] = Append(@, data[h].encrypted_data)]
            /\ pc' = [pc EXCEPT ![h] = "l27"]
            /\ UNCHANGED <<resp, secret_id>>
    /\ UNCHANGED <<issued, op, data, secret, popped, delivered, nreq, ord>>

\* line 27: return jsonify({"secret_id": secret_id}), 201
StoreReturn(h) ==
    /\ pc[h] = "l27"
    /\ resp' = [resp EXCEPT ![h] = StoreResponse(secret_id[h])]
    /\ pc' = [pc EXCEPT ![h] = "done"]
    /\ secret_id' = [secret_id EXCEPT ![h] = NotARealId]
    /\ UNCHANGED <<secrets_store, issued, op, data, secret, puts, popped,
                   delivered, nreq, ord>>

\* ------------------------------------------------------- retrieve_secret
\* line 36: secrets_store.pop(secret_id, None): the value and the new dict.
PopValue(store, id) == IF id \in DOMAIN store THEN store[id] ELSE None

PopRest_get(store, id) == store

PopRest_popitem(store, id) ==
    IF id \in DOMAIN store \/ DOMAIN store = {}
    THEN [i \in DOMAIN store \ {id} |-> store[i]]
    ELSE LET victim == CHOOSE i \in DOMAIN store : TRUE
         IN  [i \in DOMAIN store \ {victim} |-> store[i]]

PopRest(store, id) == [i \in DOMAIN store \ {id} |-> store[i]]

\* line 38: `if secret:` tests the popped wrapper dict, never the payload.
Found_payload_test(s) == s # None /\ s.encrypted_data # ""

Found(s) == s # None /\ DOMAIN s # {}

\* lines 38-41
RetrieveResponse_leaky(h) ==
    IF Found(secret[h]) THEN Ok(secret[h])
    ELSE IF secret_id[h] \in issued
         THEN [status |-> 404, error |-> "Secret has been viewed already."]
         ELSE [status |-> 404, error |-> "Secret not found."]

RetrieveResponse(h) ==
    IF Found(secret[h]) THEN Ok(secret[h]) ELSE NotFound

\* line 36: a GET arrives for path id `id` and pops it.
RetrievePop(h, id) ==
    /\ Free(h)
    /\ nreq < MaxRequests
    /\ nreq' = nreq + 1
    /\ op' = [op EXCEPT ![h] = "retrieve"]
    /\ data' = [data EXCEPT ![h] = NoData]
    /\ secret_id' = [secret_id EXCEPT ![h] = id]
    /\ secret' = [secret EXCEPT ![h] = PopValue(secrets_store, id)]
    /\ secrets_store' = PopRest(secrets_store, id)
    /\ resp' = [resp EXCEPT ![h] = NoResp]
    /\ pc' = [pc EXCEPT ![h] = "l38"]
    /\ IF id \in Ids /\ puts[id] # <<>>
       THEN /\ popped' = popped \cup {id}
            /\ ord' = [ord EXCEPT ![h] = IF id \in popped THEN 2 ELSE 1]
       ELSE /\ ord' = [ord EXCEPT ![h] = 0]
            /\ UNCHANGED popped
    /\ UNCHANGED <<issued, puts, delivered>>

\* lines 38-41
RetrieveReturn(h) ==
    /\ pc[h] = "l38"
    /\ resp' = [resp EXCEPT ![h] = RetrieveResponse(h)]
    /\ delivered' = IF resp'[h].status \in {200, 201} /\ secret_id[h] \in Ids
                    THEN [delivered EXCEPT ![secret_id[h]] = Count(@)]
                    ELSE delivered
    /\ pc' = [pc EXCEPT ![h] = "done"]
    /\ secret' = [secret EXCEPT ![h] = None]
    /\ UNCHANGED <<secrets_store, issued, op, data, secret_id, puts,
                   popped, nreq, ord>>

Next ==
    \E h \in Handlers :
        \/ \E body \in JsonBodies : StoreValidate(h, body)
        \/ StoreGenId(h)
        \/ StoreInsert(h)
        \/ StoreReturn(h)
        \/ \E id \in PathIds : RetrievePop(h, id)
        \/ RetrieveReturn(h)

Spec == Init /\ [][Next]_vars

\* The steps of a request that has been received.
HandlerStep(h) ==
    StoreGenId(h) \/ StoreInsert(h) \/ StoreReturn(h) \/ RetrieveReturn(h)

\* Every request runs on a thread of its own, and the interpreter keeps
\* scheduling every runnable thread: a received request that can take its
\* next step eventually takes it.  Nothing obliges clients to send requests.
FairSpec == Spec /\ \A h \in Handlers : WF_vars(HandlerStep(h))

\* ------------------------------------------------------------ properties
DonePut(h)  == pc[h] = "done" /\ op[h] = "store"
DoneTake(h) == pc[h] = "done" /\ op[h] = "retrieve"

\* The payload the put that issued id was given.
PutPayload(id) == puts[id][1]

\* C1. Single delivery: of the takes made on an id once a put has stored it,
\* the first answers 200 with exactly the payload given to that put, and
\* every later one answers 404.
C1_SingleDelivery ==
    \A h \in Handlers :
        DoneTake(h) /\ ord[h] >= 1 =>
            /\ ord[h] = 1 =>
                 resp[h] = [status |-> 200,
                            encrypted_data |-> PutPayload(secret_id[h])]
            /\ ord[h] = 2 => resp[h].status = 404

\* A first and a later take on one id have both been answered.
C1_Witness ==
    \E h1, h2 \in Handlers :
        /\ DoneTake(h1) /\ DoneTake(h2)
        /\ secret_id[h1] = secret_id[h2]
        /\ ord[h1] = 1 /\ resp[h1].status = 200
        /\ ord[h2] = 2 /\ resp[h2].status = 404

\* The handlers whose take on id, made since id was stored, has been answered.
Answered(id) ==
    {h \in Handlers : DoneTake(h) /\ secret_id[h] = id /\ ord[h] >= 1}

InFlight(id) ==
    {h \in Handlers : pc[h] = "l38" /\ secret_id[h] = id}

\* C2. Concurrent race: of the handlers racing take on one stored id, under
\* every interleaving at most one is answered 200 and all the others 404; no
\* id is ever delivered twice; and once every racing handler has answered,
\* exactly one delivery has been made.
C2_ConcurrentRace ==
    \A id \in Ids :
        LET won == {h \in Answered(id) : resp[h].status = 200} IN
        /\ Cardinality(won) <= 1
        /\ \A h \in Answered(id) \ won : resp[h] = NotFound
        /\ delivered[id] <= 1
        /\ id \in popped /\ InFlight(id) = {} => delivered[id] = 1

\* Two takes of one id overlapped: the one that popped second has already
\* been answered 404 while the one that popped first has not returned yet.
C2_Witness ==
    \E h1, h2 \in Handlers :
        /\ pc[h1] = "l38" /\ ord[h1] = 1 /\ secret[h1] # None
        /\ DoneTake(h2) /\ ord[h2] = 2 /\ resp[h2] = NotFound
        /\ secret_id[h1] = secret_id[h2]

\* A JSON object whose encrypted_data is missing or the empty string, or no
\* body value at all.
EmptyOrMissing(d) ==
    \/ d.type = "None"
    \/ d.type = "dict" /\ "encrypted_data" \notin d.items
    \/ d.type = "dict" /\ d.encrypted_data = ""

\* C3. Empty payload rejected: a put whose payload is the empty string or
\* whose encrypted_data field is missing is answered 400, draws no id and
\* stores nothing: it never gets past line 22, and no empty payload is ever
\* stored.
C3_EmptyPayloadRejected ==
    /\ \A h \in Handlers :
          op[h] = "store" /\ EmptyOrMissing(data[h]) =>
              pc[h] = "done" /\ resp[h] = BadRequest
    /\ \A id \in Ids : \A k \in 1..Len(puts[id]) : puts[id][k] # ""

\* C4. No cross-talk: no id is issued by two puts, two 201 responses name
\* different ids, and a 200 response to a take on an id carries the payload
\* given to the put that issued that id.
C4_NoCrossTalk ==
    /\ \A id \in Ids : Len(puts[id]) <= 1
    /\ \A h1, h2 \in Handlers :
          h1 # h2 /\ DonePut(h1) /\ DonePut(h2)
             /\ resp[h1].status = 201 /\ resp[h2].status = 201
          => resp[h1].secret_id # resp[h2].secret_id
    /\ \A h \in Handlers :
          DoneTake(h) /\ resp[h].status = 200 =>
              /\ secret_id[h] \in Ids
              /\ puts[secret_id[h]] # <<>>
              /\ resp[h].encrypted_data = PutPayload(secret_id[h])

\* Two secrets with different payloads are stored, and the take on one of
\* them has returned its own payload while the other is still stored.
C4_Witness ==
    \E h \in Handlers : \E other \in Ids :
        /\ DoneTake(h) /\ resp[h].status = 200
        /\ other # secret_id[h]
        /\ other \in DOMAIN secrets_store
        /\ secrets_store[other].encrypted_data # resp[h].encrypted_data

\* C5. Unknown id: a take on an id that is not in the mapping leaves the
\* mapping exactly as it was, pops None, and is answered NotFound.
C5_UnknownIdNoEffect ==
    [][\A h \in Handlers :
          /\ (Free(h) /\ pc'[h] = "l38"
                /\ secret_id'[h] \notin DOMAIN secrets_store)
             => (secrets_store' = secrets_store /\ secret'[h] = None)
          /\ (pc[h] = "l38" /\ secret[h] = None /\ pc'[h] = "done")
             => (resp'[h] = NotFound /\ secrets_store' = secrets_store)]_vars

\* A take on a never-issued id has been answered NotFound while the mapping
\* holds a secret.
C5_Witness ==
    \E h \in Handlers :
        /\ DoneTake(h) /\ ord[h] = 0 /\ resp[h] = NotFound
        /\ DOMAIN secrets_store # {}

\* C6. No internal error states: every put ends in 201 or 400 and every take
\* in 200 or 404.
C6_NoInternalError ==
    \A h \in Handlers :
        pc[h] = "done" =>
            /\ op[h] = "store" => resp[h].status \in {201, 400}
            /\ op[h] = "retrieve" => resp[h].status \in {200, 404}

\* C7. NotFound is indistinguishable: the response to a take on an id that
\* was never issued equals, status and body, the response to a take on an id
\* that was issued and already retrieved.
C7_NotFoundIndistinguishable ==
    \A h1, h2 \in Handlers :
        DoneTake(h1) /\ ord[h1] = 0 /\ DoneTake(h2) /\ ord[h2] = 2
        => resp[h1] = resp[h2]

\* Both kinds of response are held at once: one for a never-issued id, one
\* for an id whose secret had been retrieved before.
C7_Witness ==
    \E h1, h2 \in Handlers :
        /\ DoneTake(h1) /\ ord[h1] = 0 /\ secret_id[h1] \notin issued
        /\ DoneTake(h2) /\ ord[h2] = 2 /\ delivered[secret_id[h2]] = 1
        /\ resp[h1].status = 404 /\ resp[h2].status = 404

\* C8. HTTP outcome mapping: a put that stored its payload answers 201 with
\* the key it inserted; a put whose body is falsy or lacks the field answers
\* 400 'encrypted_data is required'; a take that found the secret answers 200
\* with the stored payload; any other take answers 404 with the fixed text.
C8_OutcomeMapping ==
    \A h \in Handlers :
        /\ DonePut(h) /\ data[h].type = "dict"
              /\ "encrypted_data" \in data[h].items
           => \E id \in Ids :
                 /\ resp[h] = [status |-> 201, secret_id |-> id]
                 /\ puts[id] # <<>>
                 /\ PutPayload(id) = data[h].encrypted_data
        /\ DonePut(h) /\ (~Truthy(data[h])
                            \/ (data[h].type = "dict"
                                /\ "encrypted_data" \notin data[h].items))
           => resp[h] = [status |-> 400, error |-> "encrypted_data is required"]
        /\ DoneTake(h) /\ ord[h] = 1
           => resp[h] = [status |-> 200,
                         encrypted_data |-> PutPayload(secret_id[h])]
        /\ DoneTake(h) /\ ord[h] # 1
           => resp[h] = [status |-> 404,
                 error |-> "Secret not found. It may have been viewed already."]

\* A rejected put and a successful take are both answered, after a put
\* succeeded.
C8_Witness ==
    \E h1, h2 \in Handlers :
        /\ DonePut(h1) /\ resp[h1].status = 400
        /\ DoneTake(h2) /\ resp[h2].status = 200

\* C9. Store invariant: every id in the mapping was issued by exactly one
\* put, has not been popped since, and maps to the payload of that put.
C9_StoreInvariant ==
    \A id \in DOMAIN secrets_store :
        /\ id \in Ids
        /\ Len(puts[id]) = 1
        /\ id \notin popped
        /\ delivered[id] = 0
        /\ secrets_store[id] = [encrypted_data |-> PutPayload(id)]

\* The mapping holds two secrets.
C9_Witness ==
    /\ Cardinality(DOMAIN secrets_store) = 2
    /\ \E i, j \in DOMAIN secrets_store :
          secrets_store[i].encrypted_data # secrets_store[j].encrypted_data

\* id was stored and has been removed.
Removed(id) == puts[id] # <<>> /\ id \notin DOMAIN secrets_store

\* C10. Irreversible present->absent: an id that has been removed from the
\* mapping is never in it again, and line 24 never draws an id that was
\* drawn before.
C10_Irreversible ==
    [][/\ \A id \in Ids : Removed(id) => Removed(id)'
       /\ \A h \in Handlers :
             pc[h] = "l24" /\ pc'[h] = "l25" => secret_id'[h] \notin issued]_vars

\* A secret has been removed and a later put has stored another one.
C10_Witness ==
    \E id \in Ids :
        /\ Removed(id)
        /\ delivered[id] = 1
        /\ DOMAIN secrets_store # {}

\* A handler holds the wrapper it popped for id and has not answered yet.
Holding(id) ==
    \E g \in Handlers :
        pc[g] = "l38" /\ secret_id[g] = id /\ secret[g] # None

\* C11. Publication order: an id named by a 201 response was inserted before
\* that response was sent, so a take on an id a client holds is answered 404
\* only if an earlier take on that id popped the secret (and has delivered it
\* or is about to); whatever other puts and takes run beside it, the first
\* take on the id is answered 200 and the id is delivered at most once.
C11_PublicationOrder ==
    /\ \A h \in Handlers :
          DonePut(h) /\ resp[h].status = 201 =>
              LET id == resp[h].secret_id IN
              /\ puts[id] # <<>>
              /\ id \in DOMAIN secrets_store \/ id \in popped
    /\ \A h \in Handlers :
          DoneTake(h) /\ secret_id[h] \in Ids =>
              /\ resp[h].status = 404 =>
                    /\ ord[h] = 2
                    /\ delivered[secret_id[h]] = 1 \/ Holding(secret_id[h])
              /\ ord[h] = 1 => resp[h].status = 200
              /\ delivered[secret_id[h]] <= 1

\* A take on a returned id has been answered 200 while a put of another
\* secret is between its insert and its return.
C11_Witness ==
    \E h1, h2 \in Handlers :
        /\ pc[h1] = "l27" /\ secret_id[h1] \in DOMAIN secrets_store
        /\ DoneTake(h2) /\ resp[h2].status = 200
        /\ secret_id[h2] # secret_id[h1]

\* Handler h takes the step of line 36 for path id `id`.
PopStep(h, id) == Free(h) /\ pc'[h] = "l38" /\ secret_id'[h] = id

\* C12. No other mutation path: in every step, an entry of the mapping either
\* stays with the same payload or is removed by a take on its own id, which
\* gets that entry; so every put, accepted or rejected, and every take on
\* another id leave it as it is, and nothing else ever removes it.
C12_NoOtherMutation ==
    [][\A id \in DOMAIN secrets_store :
          \/ /\ id \in DOMAIN secrets_store'
             /\ secrets_store'[id] = secrets_store[id]
          \/ /\ id \notin DOMAIN secrets_store'
             /\ \E h \in Handlers :
                   PopStep(h, id) /\ secret'[h] = secrets_store[id]]_vars

\* A secret is still stored, never popped, after a put was rejected and a
\* take on another id was answered NotFound.
C12_Witness ==
    \E id \in DOMAIN secrets_store : \E h1, h2 \in Handlers :
        /\ id \notin popped
        /\ DonePut(h1) /\ resp[h1].status = 400
        /\ DoneTake(h2) /\ secret_id[h2] # id /\ resp[h2] = NotFound
        /\ nreq >= 3

\* The sum of n[i] over the ids, for n a function from Ids to naturals.
SumOver(n) == Cardinality({<<i, k>> \in Ids \X (1..MaxRequests) : k <= n[i]})

Size == Cardinality(DOMAIN secrets_store)

\* The step is handler h's: no other handler moves.
Acts(h) ==
    \A g \in Handlers \ {h} :
        /\ pc'[g] = pc[g] /\ op'[g] = op[g] /\ data'[g] = data[g]
        /\ secret_id'[g] = secret_id[g] /\ secret'[g] = secret[g]
        /\ resp'[g] = resp[g] /\ ord'[g] = ord[g]

\* Puts that stored their payload (line 25 ran).
SuccessfulPuts == SumOver([i \in Ids |-> Len(puts[i])])

\* Takes that got a secret: those answered 200 and those that hold the
\* popped wrapper and are about to answer.
SuccessfulTakes ==
    SumOver(delivered)
    + Cardinality({h \in Handlers : pc[h] = "l38" /\ secret[h] # None})

\* C13. Size accounting: the insert of an accepted put adds exactly one entry,
\* a take that finds its id removes exactly one, a rejected or failed put and
\* a take that finds nothing change nothing, and no other step changes the
\* size; so the size is always the successful puts minus the successful
\* takes, and the takes never outnumber the puts.
SizeBalance ==
    /\ Size = SuccessfulPuts - SuccessfulTakes
    /\ SuccessfulTakes <= SuccessfulPuts

C13_SizeAccounting ==
    /\ []SizeBalance
    /\ [][\A h \in Handlers : Acts(h) =>
             /\ pc[h] = "l25" /\ pc'[h] = "l27" => Size' = Size + 1
             /\ pc[h] = "l25" /\ pc'[h] = "done" => Size' = Size
             /\ Free(h) /\ op'[h] = "store" => Size' = Size
             /\ pc[h] \in {"l24", "l27", "l38"} => Size' = Size
             /\ Free(h) /\ pc'[h] = "l38" /\ secret'[h] # None
                => Size' = Size - 1
             /\ Free(h) /\ pc'[h] = "l38" /\ secret'[h] = None
                => Size' = Size]_vars

\* Two puts and one take have succeeded and a take has failed: one entry is
\* left.
C13_Witness ==
    /\ SuccessfulPuts = 2
    /\ SuccessfulTakes = 1
    /\ Size = 1
    /\ \E h \in Handlers : DoneTake(h) /\ resp[h] = NotFound

Busy(h) == pc[h] \in {"l24", "l25", "l27", "l38"}

\* C14. No blocking: a request that has been received can always take its
\* next step, whatever the other handlers are doing (it waits on nothing and
\* the system cannot deadlock with a request pending), and under fair
\* scheduling every received put or take returns a response.
C14_NoBlocking ==
    /\ [](\A h \in Handlers : Busy(h) => ENABLED HandlerStep(h))
    /\ \A h \in Handlers : Busy(h) ~> (pc[h] = "done" /\ resp[h] # NoResp)

\* A put and a take are in progress at once while a secret is stored.
C14_Witness ==
    \E h1, h2 \in Handlers :
        /\ pc[h1] = "l25"
        /\ pc[h2] = "l38"
        /\ DOMAIN secrets_store # {}

\* C15. Falsy payloads are still delivered: a take on an id that is in the
\* mapping pops its wrapper and is answered 200 with the stored payload,
\* whatever that payload is (the empty string included), and a take that is
\* answered NotFound has removed nothing.
C15_FalsyPayloadDelivered ==
    [][\A h \in Handlers :
          /\ \A id \in DOMAIN secrets_store :
                PopStep(h, id) => secret'[h] = secrets_store[id]
          /\ pc[h] = "l38" /\ pc'[h] = "done" /\ secret[h] # None
             => resp'[h] = [status |-> 200,
                            encrypted_data |-> secret[h].encrypted_data]
          /\ pc[h] = "l38" /\ pc'[h] = "done" /\ resp'[h].status = 404
             => secret[h] = None]_vars

\* A secret whose payload is the empty string has been delivered.
C15_Witness ==
    \E h \in Handlers :
        /\ DoneTake(h)
        /\ resp[h] = [status |-> 200, encrypted_data |-> ""]
        /\ delivered[secret_id[h]] = 1

====
